---- MODULE Spec2Model ----
(***************************************************************************)
(* Mobilitetsdashboard (src/main.py): a Streamlit script that loads a      *)
(* shapefile, generates a random origin-destination table over its areas   *)
(* and renders, for the selected area, the outbound and inbound trips and  *)
(* a Sankey graph.  The script is re-executed from the top on every user   *)
(* interaction; one execution of the script is one "pass".                 *)
(*                                                                         *)
(* Area names are modelled as the integers 1..n, so that alphabetical      *)
(* order is numeric order.  A Python list is a sequence, a dict is the     *)
(* sequence of its entries in insertion order.                             *)
(***************************************************************************)
EXTENDS Integers, Sequences, FiniteSets, TLC

\* Bounds of the model.
MaxAreas == 12      \* largest number of distinct areas in the shapefile
TapeLen == 2        \* period of the random source
MaxPick == 2        \* the user picks among the first MaxPick areas and the last

\* Program constants.
MAX_ANDRE_NODER == 10
RandLo == 300
RandHi == 3000

\* Absent value: a missing session_state key, no map selection, a NaN cell.
NoArea == 0

VARIABLES
    load,           \* what gpd.read_file / gdf.columns give: "unreadable", "nofield", "ok"
    rows,           \* the column gdf[NAVN_FELT], one name per record
    tape,           \* the random source behind random.randint (raw outputs, periodic)
    rng_pos,        \* number of draws made from the random source so far
    shape_cache,    \* st.cache_data store of les_shapefil: "uncalled", "None", "gdf"
    od_cache,       \* st.cache_data store of generer_tilfeldig_od_data: entries [key, value]
    valgt_omraade,  \* st.session_state.valgt_område (NoArea: key absent)
    sb_choice,      \* the value the user just picked in the selectbox (NoArea: none pending)
    map_sel,        \* the point selection held by the plotly_chart widget "map"
    pc,             \* "run": a pass is due; "idle": page rendered; "halted"; "crashed"
    view,           \* what the last pass that got past the map computed and rendered
    chosen          \* history: the area the user chose most recently (NoArea: none yet)

vars == <<load, rows, tape, rng_pos, shape_cache, od_cache, valgt_omraade,
          sb_choice, map_sel, pc, view, chosen>>

(***************************************************************************)
(* Python list helpers.                                                    *)
(***************************************************************************)
Range(s) == {s[i] : i \in 1..Len(s)}

InSeq(x, s) == \E i \in 1..Len(s) : s[i] = x

\* list.index(x): 0-based position of the first occurrence
IndexOf(s, x) == (CHOOSE i \in 1..Len(s) : s[i] = x /\ \A j \in 1..(i - 1) : s[j] # x) - 1

\* s[:k]
Prefix(s, k) == IF Len(s) <= k THEN s ELSE SubSeq(s, 1, k)

RECURSIVE SumAntall(_)
SumAntall(s) == IF s = <<>> THEN 0 ELSE s[1].antall + SumAntall(Tail(s))

\* Series.unique(): the values in order of first appearance
RECURSIVE Unique(_)
Unique(s) ==
    IF s = <<>> THEN <<>>
    ELSE LET init == Unique(SubSeq(s, 1, Len(s) - 1))
             x == s[Len(s)]
         IN IF InSeq(x, init) THEN init ELSE Append(init, x)

\* sorted(list): ascending, by insertion
RECURSIVE Insert(_, _)
Insert(x, s) ==
    IF s = <<>> THEN <<x>>
    ELSE IF x < s[1] THEN <<x>> \o s
    ELSE <<s[1]>> \o Insert(x, Tail(s))

RECURSIVE Sorted(_)
Sorted(s) == IF s = <<>> THEN <<>> ELSE Insert(s[Len(s)], Sorted(SubSeq(s, 1, Len(s) - 1)))

(***************************************************************************)
(* Area catalog (lines 23-36, 54-70).                                      *)
(***************************************************************************)
\* @st.cache_data les_shapefil: the first call reads the file, later calls
\* return the stored result (None included).
les_shapefil(cache, outcome) ==
    IF cache # "uncalled" THEN cache
    ELSE IF outcome = "unreadable" THEN "None" ELSE "gdf"

\* the check of lines 63-66 left out
HarNavnFeltAlltid(outcome) == TRUE

\* NAVN_FELT in gdf.columns
HarNavnFelt(outcome) == outcome # "nofield"

\* områder_liste = sorted(gdf[NAVN_FELT].unique().tolist())
omraader_liste(r) == Sorted(Unique(r))

(***************************************************************************)
(* Flow generator (lines 39-51).                                           *)
(***************************************************************************)
\* random.randint(a, b): the next raw output of the generator, reduced to a..b
Randint(a, b, raw) == a + (raw % (b - a + 1))

RawAt(t, pos) == t[(pos % Len(t)) + 1]

\* the test of line 46 left out
ErParAlltid(fra, til) == TRUE

\* if fra != til
ErPar(fra, til) == fra # til

\* the (fra, til) combinations the two nested loops visit, in order
Kombinasjoner(liste) ==
    LET n == Len(liste) IN
    [k \in 1..(n * n) |-> [fra |-> liste[((k - 1) \div n) + 1],
                           til |-> liste[((k - 1) % n) + 1]]]

\* the loops: every combination that passes the test draws the next random
\* number and assigns od_data[(fra, til)]; a key assigned again keeps its
\* place in the dict and takes the later value
GenLoop(liste, t, pos) ==
    LET par == SelectSeq(Kombinasjoner(liste), LAMBDA c : ErPar(c.fra, c.til))
        m == Len(par)
        first == SelectSeq([i \in 1..m |-> i],
                           LAMBDA i : \A j \in 1..(i - 1) : par[j] # par[i])
        last(i) == CHOOSE j \in i..m :
                       par[j] = par[i] /\ \A l \in (j + 1)..m : par[l] # par[i]
    IN [od |-> [e \in 1..Len(first) |->
                   [fra |-> par[first[e]].fra, til |-> par[first[e]].til,
                    antall |-> Randint(RandLo, RandHi, RawAt(t, pos + last(first[e]) - 1))]],
        pos |-> pos + m]

generer_tilfeldig_od_data(liste, t, pos) == GenLoop(liste, t, pos)

\* @st.cache_data: a stored entry for the same argument is returned as is,
\* otherwise the function runs and its result is stored.
CacheHit(cache, liste) == \E i \in 1..Len(cache) : cache[i].key = liste

\* the function without its cache decorator: every call generates anew
ucached_generer(cache, liste, t, pos) ==
    LET g == generer_tilfeldig_od_data(liste, t, pos)
    IN [value |-> g.od, cache |-> <<[key |-> liste, value |-> g.od]>>, pos |-> g.pos]

cached_generer(cache, liste, t, pos) ==
    IF CacheHit(cache, liste)
    THEN [value |-> cache[CHOOSE i \in 1..Len(cache) : cache[i].key = liste].value,
          cache |-> cache, pos |-> pos]
    ELSE LET g == generer_tilfeldig_od_data(liste, t, pos)
         IN [value |-> g.od,
             cache |-> Append(cache, [key |-> liste, value |-> g.od]),
             pos |-> g.pos]

(***************************************************************************)
(* Flow aggregator (lines 211-228).                                        *)
(***************************************************************************)
\* for (fra, til), antall in od_data.items(): if fra == valgt: reiser_ut.append(...)
ReiserUt(od, s) ==
    LET f == SelectSeq(od, LAMBDA e : e.fra = s)
    IN [i \in 1..Len(f) |-> [til |-> f[i].til, antall |-> f[i].antall]]

\* ... if til == valgt: reiser_inn.append(...)
ReiserInn(od, s) ==
    LET f == SelectSeq(od, LAMBDA e : e.til = s)
    IN [i \in 1..Len(f) |-> [fra |-> f[i].fra, antall |-> f[i].antall]]

\* a net flow that is never negative
NettoKlippet(total_inn, total_ut) ==
    IF total_inn - total_ut < 0 THEN 0 ELSE total_inn - total_ut

\* the value shown by col_c.metric("Netto", ...)
Netto(total_inn, total_ut) == total_inn - total_ut

(***************************************************************************)
(* Flow graph builder (lines 230-267).                                     *)
(***************************************************************************)
\* the selection not excluded from the candidates
AndreAlle(liste, s) == liste

\* andre = [o for o in områder_liste if o != valgt]
Andre(liste, s) == SelectSeq(liste, LAMBDA o : o # s)

\* pd.DataFrame(reiser_ut + reiser_inn): the columns are the keys met, in
\* order of first appearance; a key a row lacks is NaN in that row.
DataFrame(ut, inn) ==
    [cols |-> (IF ut # <<>> THEN {"til", "antall"} ELSE {})
                \cup (IF inn # <<>> THEN {"fra", "antall"} ELSE {}),
     rows |-> [i \in 1..(Len(ut) + Len(inn)) |->
                 IF i <= Len(ut)
                 THEN [til |-> ut[i].til, fra |-> NoArea, antall |-> ut[i].antall]
                 ELSE [til |-> NoArea, fra |-> inn[i - Len(ut)].fra,
                       antall |-> inn[i - Len(ut)].antall]]]

\* DataFrame.nlargest(k, 'antall'), keep='first': the k rows of largest
\* antall in descending order, equal values in their original order.
RECURSIVE NLargestFrom(_, _, _)
NLargestFrom(r, k, rem) ==
    IF k = 0 \/ rem = {} THEN <<>>
    ELSE LET b == CHOOSE i \in rem : \A j \in rem :
                      \/ r[i].antall > r[j].antall
                      \/ (r[i].antall = r[j].antall /\ i <= j)
         IN <<r[b]>> \o NLargestFrom(r, k - 1, rem \ {b})

nlargest(df, k) == NLargestFrom(df.rows, k, 1..Len(df.rows))

\* top_områder: column 'til' of the k largest rows if the frame has that
\* column, else column 'fra'; .unique().tolist()
top_omraader(df, k) ==
    LET top == nlargest(df, k) IN
    IF "til" \in df.cols
    THEN Unique([i \in 1..Len(top) |-> top[i].til])
    ELSE Unique([i \in 1..Len(top) |-> top[i].fra])

\* the cap compared with >= instead of >
OverCapEllerLik(andre) == Len(andre) >= MAX_ANDRE_NODER

\* if len(andre) > MAX_ANDRE_NODER
OverCap(andre) == Len(andre) > MAX_ANDRE_NODER

\* lines 236-245: the candidates after the top-K restriction
FiltrerAndre(andre, ut, inn) ==
    IF OverCap(andre) /\ ut \o inn # <<>>
    THEN LET top == top_omraader(DataFrame(ut, inn), MAX_ANDRE_NODER)
         IN Prefix(SelectSeq(andre, LAMBDA o : InSeq(o, top)), MAX_ANDRE_NODER)
    ELSE andre

\* alle_noder = [valgt]; alle_noder.extend(andre)
AlleNoder(s, andre) == <<s>> \o andre

\* node_dict = {node: idx for idx, node in enumerate(alle_noder)}: a repeated
\* node keeps its last index
NodeDict(noder) ==
    [x \in Range(noder) |->
        (CHOOSE i \in 1..Len(noder) :
            noder[i] = x /\ \A j \in (i + 1)..Len(noder) : noder[j] # x) - 1]

\* lines 255-260: the links of the outbound entries
RECURSIVE LenkerUt(_, _, _)
LenkerUt(ut, nd, s) ==
    IF ut = <<>> THEN <<>>
    ELSE LET rest == LenkerUt(Tail(ut), nd, s)
         IN IF ut[1].til \in DOMAIN nd
            THEN <<[source |-> nd[s], target |-> nd[ut[1].til],
                    value |-> ut[1].antall, color |-> "ut"]>> \o rest
            ELSE rest

\* inbound links with source and target exchanged
RECURSIVE LenkerInnByttet(_, _, _)
LenkerInnByttet(inn, nd, s) ==
    IF inn = <<>> THEN <<>>
    ELSE LET rest == LenkerInnByttet(Tail(inn), nd, s)
         IN IF inn[1].fra \in DOMAIN nd
            THEN <<[source |-> nd[s], target |-> nd[inn[1].fra],
                    value |-> inn[1].antall, color |-> "inn"]>> \o rest
            ELSE rest

\* lines 262-267: the links of the inbound entries
RECURSIVE LenkerInn(_, _, _)
LenkerInn(inn, nd, s) ==
    IF inn = <<>> THEN <<>>
    ELSE LET rest == LenkerInn(Tail(inn), nd, s)
         IN IF inn[1].fra \in DOMAIN nd
            THEN <<[source |-> nd[inn[1].fra], target |-> nd[s],
                    value |-> inn[1].antall, color |-> "inn"]>> \o rest
            ELSE rest

\* the Sankey drawn whether or not there are links
VisSankeyAlltid(sources) == TRUE

\* if sources: (line 269)
VisSankey(sources) == sources # <<>>

(***************************************************************************)
(* One pass of the script past the map (lines 208-405): everything the     *)
(* page shows for the selection s.                                         *)
(***************************************************************************)
EmptyView ==
    [liste |-> <<>>, od_data |-> <<>>, valgt |-> NoArea,
     reiser_ut |-> <<>>, reiser_inn |-> <<>>,
     total_ut |-> 0, total_inn |-> 0, netto |-> 0,
     alle_noder |-> <<>>, links |-> <<>>,
     messages |-> {}, rendered |-> {}]

Render(liste, od, s) ==
    LET ut == ReiserUt(od, s)
        inn == ReiserInn(od, s)
        total_ut == SumAntall(ut)
        total_inn == SumAntall(inn)
        andre == FiltrerAndre(Andre(liste, s), ut, inn)
        noder == AlleNoder(s, andre)
        nd == NodeDict(noder)
        links == LenkerUt(ut, nd, s) \o LenkerInn(inn, nd, s)
    IN [liste |-> liste, od_data |-> od, valgt |-> s,
        reiser_ut |-> ut, reiser_inn |-> inn,
        total_ut |-> total_ut, total_inn |-> total_inn,
        netto |-> Netto(total_inn, total_ut),
        alle_noder |-> noder, links |-> links,
        messages |-> {"lastet"}
            \cup (IF VisSankey(links) THEN {} ELSE {"ingen_reisestroemmer"})
            \cup (IF ut # <<>> THEN {} ELSE {"ingen_utgaaende"})
            \cup (IF inn # <<>> THEN {} ELSE {"ingen_innkommende"}),
        rendered |-> {"kart", "alle_omraader", "topp10"}
            \cup (IF VisSankey(links) THEN {"sankey"} ELSE {})
            \cup (IF ut # <<>> THEN {"tabell_ut", "csv_ut"} ELSE {})
            \cup (IF inn # <<>> THEN {"tabell_inn", "csv_inn"} ELSE {})]

(***************************************************************************)
(* The top of the script (lines 54-99, 189-206) on the current state.      *)
(***************************************************************************)
Gdf == les_shapefil(shape_cache, load)

Liste == omraader_liste(rows)

Gen == cached_generer(od_cache, Liste, tape, rng_pos)

\* if 'valgt_område' not in st.session_state: ... = områder_liste[0]
Session0 == IF valgt_omraade = NoArea THEN Liste[1] ELSE valgt_omraade

\* st.selectbox(label, options, index): what the user just picked, else the
\* option at index
selectbox(options, index, choice) ==
    IF choice # NoArea THEN choice ELSE options[index + 1]

Valgt == selectbox(Liste, IndexOf(Liste, Session0), sb_choice)

\* clicked['customdata'][0] of the first selected point of the map
Klikket == map_sel

\* if nytt_område != st.session_state.valgt_område (with a point selected)
KlikkEndrer(nytt, s) == nytt # NoArea /\ nytt # s

(***************************************************************************)
(* Inputs.                                                                 *)
(***************************************************************************)
ScenarioTape == <<700, 200, 500, 300, 600, 100>>

RawLevels == {2700, 2701}

Tapes == [1..TapeLen -> RawLevels] \cup {ScenarioTape}

Asc(n) == [i \in 1..n |-> i]

\* descending, with the first record repeated at the end
DescDup(n) == [i \in 1..(n + 1) |-> IF i <= n THEN n + 1 - i ELSE n]

Datasets == {Asc(n) : n \in 0..MaxAreas} \cup {DescDup(n) : n \in 1..MaxAreas}

Min(a, b) == IF a <= b THEN a ELSE b

UserAreas(liste) ==
    IF liste = <<>> THEN {}
    ELSE {liste[i] : i \in 1..Min(MaxPick, Len(liste))} \cup {liste[Len(liste)]}

Init ==
    /\ load \in {"unreadable", "nofield", "ok"}
    /\ rows \in (IF load = "ok" THEN Datasets ELSE {<<>>})
    /\ tape \in (IF load = "ok" THEN Tapes ELSE {ScenarioTape})
    /\ rng_pos = 0
    /\ shape_cache = "uncalled"
    /\ od_cache = <<>>
    /\ valgt_omraade = NoArea
    /\ sb_choice = NoArea
    /\ map_sel = NoArea
    /\ pc = "run"
    /\ view = EmptyView
    /\ chosen = NoArea

(***************************************************************************)
(* The passes.                                                             *)
(***************************************************************************)
\* lines 55-60: the shapefile cannot be read
RunHaltsUnreadable ==
    /\ pc = "run"
    /\ Gdf = "None"
    /\ shape_cache' = Gdf
    /\ view' = [EmptyView EXCEPT !.messages = {"kunne_ikke_lese", "kunne_ikke_laste", "sjekk_stien"}]
    /\ pc' = "halted"
    /\ UNCHANGED <<load, rows, tape, rng_pos, od_cache, valgt_omraade, sb_choice, map_sel, chosen>>

\* lines 62-66: the name field is missing
RunHaltsNoField ==
    /\ pc = "run"
    /\ Gdf # "None"
    /\ ~HarNavnFelt(load)
    /\ shape_cache' = Gdf
    /\ view' = [EmptyView EXCEPT !.messages = {"finner_ikke_feltet", "tilgjengelige_felt"}]
    /\ pc' = "halted"
    /\ UNCHANGED <<load, rows, tape, rng_pos, od_cache, valgt_omraade, sb_choice, map_sel, chosen>>

\* line 77 on an empty area list: IndexError
RunCrashes ==
    /\ pc = "run"
    /\ Gdf # "None"
    /\ HarNavnFelt(load)
    /\ valgt_omraade = NoArea
    /\ Liste = <<>>
    /\ shape_cache' = Gdf
    /\ od_cache' = Gen.cache
    /\ rng_pos' = Gen.pos
    /\ view' = [EmptyView EXCEPT !.messages = {"lastet", "IndexError"}]
    /\ pc' = "crashed"
    /\ UNCHANGED <<load, rows, tape, valgt_omraade, sb_choice, map_sel, chosen>>

\* lines 55-206, the map reporting a point of another area: st.rerun()
RunReruns ==
    /\ pc = "run"
    /\ Gdf # "None"
    /\ HarNavnFelt(load)
    /\ ~(valgt_omraade = NoArea /\ Liste = <<>>)
    /\ KlikkEndrer(Klikket, Valgt)
    /\ shape_cache' = Gdf
    /\ od_cache' = Gen.cache
    /\ rng_pos' = Gen.pos
    /\ valgt_omraade' = Klikket
    /\ sb_choice' = NoArea
    /\ pc' = "run"
    /\ UNCHANGED <<load, rows, tape, map_sel, view, chosen>>

\* lines 55-412, the whole script
RunCompletes ==
    /\ pc = "run"
    /\ Gdf # "None"
    /\ HarNavnFelt(load)
    /\ ~(valgt_omraade = NoArea /\ Liste = <<>>)
    /\ ~KlikkEndrer(Klikket, Valgt)
    /\ LET g == Gen IN
        /\ od_cache' = g.cache
        /\ rng_pos' = g.pos
        /\ view' = Render(Liste, g.value, Valgt)
    /\ shape_cache' = Gdf
    /\ valgt_omraade' = Valgt
    /\ sb_choice' = NoArea
    /\ pc' = "idle"
    /\ UNCHANGED <<load, rows, tape, map_sel, chosen>>

(***************************************************************************)
(* The user.                                                               *)
(***************************************************************************)
\* picks another option in the list control
SelectArea ==
    /\ pc = "idle"
    /\ \E a \in UserAreas(view.liste) :
        /\ a # valgt_omraade
        /\ sb_choice' = a
        /\ chosen' = a
    /\ pc' = "run"
    /\ UNCHANGED <<load, rows, tape, rng_pos, shape_cache, od_cache, valgt_omraade, map_sel, view>>

\* clicks a polygon of the map
ClickPolygon ==
    /\ pc = "idle"
    /\ \E a \in UserAreas(view.liste) :
        /\ a # map_sel
        /\ map_sel' = a
        /\ chosen' = a
    /\ pc' = "run"
    /\ UNCHANGED <<load, rows, tape, rng_pos, shape_cache, od_cache, valgt_omraade, sb_choice, view>>

\* clears the selection of the map (double click)
ClearMapSelection ==
    /\ pc = "idle"
    /\ map_sel # NoArea
    /\ map_sel' = NoArea
    /\ pc' = "run"
    /\ UNCHANGED <<load, rows, tape, rng_pos, shape_cache, od_cache, valgt_omraade, sb_choice, view, chosen>>

\* any interaction that changes no input (rerun from the menu, a download)
Rerun ==
    /\ pc \in {"idle", "halted", "crashed"}
    /\ pc' = "run"
    /\ UNCHANGED <<load, rows, tape, rng_pos, shape_cache, od_cache, valgt_omraade, sb_choice, map_sel, view, chosen>>

Next ==
    \/ RunHaltsUnreadable
    \/ RunHaltsNoField
    \/ RunCrashes
    \/ RunReruns
    \/ RunCompletes
    \/ SelectArea
    \/ ClickPolygon
    \/ ClearMapSelection
    \/ Rerun

Spec == Init /\ [][Next]_vars

(***************************************************************************)
(* Properties.                                                             *)
(***************************************************************************)
\* the last pass rendered the page for a selection
Vist == view.valgt # NoArea

\* total weight of the entries of od at the indices I, each index once
RECURSIVE SumVekt(_, _)
SumVekt(od, I) ==
    IF I = {} THEN 0
    ELSE LET i == CHOOSE j \in I : TRUE IN od[i].antall + SumVekt(od, I \ {i})

\* the edge set of the example: A = 1, B = 2, C = 3
ScenarioOD ==
    << [fra |-> 1, til |-> 2, antall |-> 1000], [fra |-> 1, til |-> 3, antall |-> 500],
       [fra |-> 2, til |-> 1, antall |-> 800],  [fra |-> 2, til |-> 3, antall |-> 600],
       [fra |-> 3, til |-> 1, antall |-> 900],  [fra |-> 3, til |-> 2, antall |-> 400] >>

\* C1: for every area list A of n >= 2 distinct areas, the generated edge set
\* has exactly n*(n-1) entries, one for every ordered pair of distinct
\* members of A, none from an area to itself, every endpoint a member of A
\* and every weight an integer in 300..3000.
C1_EdgeSet ==
    \A c \in 1..Len(od_cache) :
        LET A == od_cache[c].key
            od == od_cache[c].value
            n == Len(A)
        IN n >= 2 =>
            /\ Len(od) = n * (n - 1)
            /\ \A i \in 1..Len(od) :
                /\ od[i].fra # od[i].til
                /\ od[i].fra \in Range(A) /\ od[i].til \in Range(A)
                /\ od[i].antall \in 300..3000
            /\ \A ia, ib \in 1..n :
                ia # ib => \E i \in 1..Len(od) : od[i].fra = A[ia] /\ od[i].til = A[ib]

C1_Witness ==
    /\ Len(od_cache) = 1
    /\ Len(od_cache[1].key) = MAX_ANDRE_NODER + 2
    /\ rows # od_cache[1].key
    /\ \E i, j \in 1..Len(od_cache[1].value) :
        od_cache[1].value[i].antall = 300 /\ od_cache[1].value[j].antall = 3000

\* C2: in a rendered pass reiser_ut is exactly the edges leaving the
\* selection (destination, weight) and reiser_inn exactly the edges entering
\* it (origin, weight), every edge touching the selection appearing once;
\* the totals are the sums of those weights, so together the total weight of
\* the edges touching the selection; the net is inbound minus outbound with
\* its sign.  On the example edge set and selection A: 1500, 1700, +200.
C2_Aggregation ==
    Vist =>
        LET od == view.od_data
            s == view.valgt
            ut == view.reiser_ut
            inn == view.reiser_inn
            U == {i \in 1..Len(od) : od[i].fra = s}
            I == {i \in 1..Len(od) : od[i].til = s}
        IN /\ Len(ut) = Cardinality(U)
           /\ Len(inn) = Cardinality(I)
           /\ \A i \in U : \E j \in 1..Len(ut) :
                ut[j].til = od[i].til /\ ut[j].antall = od[i].antall
           /\ \A i \in I : \E j \in 1..Len(inn) :
                inn[j].fra = od[i].fra /\ inn[j].antall = od[i].antall
           /\ \A j, k \in 1..Len(ut) : ut[j].til = ut[k].til => j = k
           /\ \A j, k \in 1..Len(inn) : inn[j].fra = inn[k].fra => j = k
           /\ view.total_ut = SumVekt(od, U)
           /\ view.total_inn = SumVekt(od, I)
           /\ view.total_ut + view.total_inn = SumVekt(od, U \cup I)
           /\ view.netto = view.total_inn - view.total_ut
           /\ (od = ScenarioOD /\ s = 1) =>
                /\ ut = <<[til |-> 2, antall |-> 1000], [til |-> 3, antall |-> 500]>>
                /\ inn = <<[fra |-> 2, antall |-> 800], [fra |-> 3, antall |-> 900]>>
                /\ view.total_ut = 1500 /\ view.total_inn = 1700 /\ view.netto = 200

C2_Witness ==
    /\ Vist
    /\ view.od_data = ScenarioOD
    /\ view.valgt = 1
    /\ view.netto = 200

\* C3: when n-1 > K the node filter keeps exactly K other areas, and every
\* kept area has an edge with the selection at least as heavy as every edge
\* of every excluded area.
C3_TopK ==
    (Vist /\ Len(view.liste) - 1 > MAX_ANDRE_NODER) =>
        LET s == view.valgt
            andre == Range(view.liste) \ {s}
            kept == Range(view.alle_noder) \ {s}
            Vekter(x) ==
                {view.reiser_ut[i].antall : i \in {j \in 1..Len(view.reiser_ut) :
                                                      view.reiser_ut[j].til = x}}
                \cup {view.reiser_inn[i].antall : i \in {j \in 1..Len(view.reiser_inn) :
                                                           view.reiser_inn[j].fra = x}}
        IN /\ Cardinality(kept) = MAX_ANDRE_NODER
           /\ \A k \in kept : \A e \in andre \ kept :
                \E w \in Vekter(k) : \A v \in Vekter(e) : w >= v

\* C4: the edge set is fixed at first generation: once stored it never
\* changes, and every rendered pass shows the stored edge set, the same as
\* the pass before it.
C4_EdgeSetFixed ==
    [][ /\ (od_cache # <<>> => od_cache' = od_cache)
        /\ (view'.valgt # NoArea =>
                /\ Len(od_cache') = 1
                /\ view'.od_data = od_cache'[1].value)
        /\ (view.valgt # NoArea /\ view'.valgt # NoArea =>
                view'.od_data = view.od_data) ]_vars

C4_Witness ==
    /\ pc = "idle"
    /\ chosen # NoArea
    /\ view.valgt = chosen
    /\ map_sel = NoArea
    /\ \E i, j \in 1..Len(view.od_data) :
        view.od_data[i].antall # view.od_data[j].antall

\* C5: in every rendered pass the node list has the selection at index 0
\* (node_dict maps it to 0), holds no area twice and has at most
\* 1 + min(K, n-1) nodes.
C5_NodeList ==
    Vist =>
        LET noder == view.alle_noder
            n == Len(view.liste)
        IN /\ n >= 1
           /\ noder[1] = view.valgt
           /\ NodeDict(noder)[view.valgt] = 0
           /\ \A i, j \in 1..Len(noder) : noder[i] = noder[j] => i = j
           /\ Len(noder) <= 1 + Min(10, n - 1)

C5_Witness ==
    /\ Vist
    /\ Len(view.liste) > MAX_ANDRE_NODER + 1
    /\ view.valgt = view.liste[Len(view.liste)]
    /\ Len(view.alle_noder) = 1 + MAX_ANDRE_NODER

\* C6: the links are one outbound link (selection -> destination, weight)
\* per outbound entry whose destination is a node, in order, followed by
\* one inbound link (origin -> selection, weight) per inbound entry whose
\* origin is a node; sources and targets are indices of the node list; an
\* entry whose other end is no node gives no link; at most min(K, n-1)
\* links per direction.
C6_Links ==
    Vist =>
        LET noder == view.alle_noder
            s == view.valgt
            l == view.links
            ut == SelectSeq(view.reiser_ut, LAMBDA r : r.til \in Range(noder))
            inn == SelectSeq(view.reiser_inn, LAMBDA r : r.fra \in Range(noder))
            cap == Min(10, Len(view.liste) - 1)
        IN /\ Len(l) = Len(ut) + Len(inn)
           /\ \A i \in 1..Len(l) :
                /\ l[i].source \in 0..(Len(noder) - 1)
                /\ l[i].target \in 0..(Len(noder) - 1)
           /\ \A i \in 1..Len(ut) :
                /\ noder[l[i].source + 1] = s
                /\ noder[l[i].target + 1] = ut[i].til
                /\ l[i].value = ut[i].antall
                /\ l[i].color = "ut"
           /\ \A i \in 1..Len(inn) :
                /\ noder[l[Len(ut) + i].source + 1] = inn[i].fra
                /\ noder[l[Len(ut) + i].target + 1] = s
                /\ l[Len(ut) + i].value = inn[i].antall
                /\ l[Len(ut) + i].color = "inn"
           /\ Len(ut) <= cap
           /\ Len(inn) <= cap

C6_Witness ==
    /\ Vist
    /\ \E i \in 1..Len(view.reiser_ut) : ~InSeq(view.reiser_ut[i].til, view.alle_noder)
    /\ \E i \in 1..Len(view.links) : view.links[i].color = "inn"
    /\ \E i \in 1..Len(view.links) : view.links[i].color = "ut"

\* C7: when n-1 <= K nothing is cut: the node list is the selection followed
\* by all other areas in catalog (ascending) order.
C7_NoTruncation ==
    (Vist /\ Len(view.liste) - 1 <= 10) =>
        LET noder == view.alle_noder
            liste == view.liste
            n == Len(liste)
            p == CHOOSE i \in 1..n : liste[i] = view.valgt
        IN /\ \A i, j \in 1..n : i < j => liste[i] < liste[j]
           /\ Len(noder) = n
           /\ noder[1] = view.valgt
           /\ \A i \in 2..n : noder[i] = (IF i - 1 < p THEN liste[i - 1] ELSE liste[i])

C7_Witness ==
    /\ Vist
    /\ Len(view.liste) - 1 = MAX_ANDRE_NODER
    /\ view.valgt # view.liste[1]
    /\ rows # view.liste
    /\ \E i \in 1..Len(view.reiser_inn) : \E j \in 1..Len(view.reiser_ut) :
        view.reiser_inn[i].antall > view.reiser_ut[j].antall

\* C8: if the dataset cannot be read, or lacks the name field, the pass
\* reports it (read failure and path hint, or the available fields) and
\* stops: no area list, no edge set, no selection, nothing rendered; a later
\* pass does not read the file again.
C8_FatalHalts ==
    /\ load = "unreadable" =>
        /\ pc \in {"run", "halted"}
        /\ pc = "halted" =>
            /\ shape_cache = "None"
            /\ view.messages = {"kunne_ikke_lese", "kunne_ikke_laste", "sjekk_stien"}
    /\ load = "nofield" =>
        /\ pc \in {"run", "halted"}
        /\ pc = "halted" =>
            /\ shape_cache = "gdf"
            /\ view.messages = {"finner_ikke_feltet", "tilgjengelige_felt"}
    /\ load # "ok" =>
        /\ view.liste = <<>> /\ view.od_data = <<>> /\ view.rendered = {}
        /\ od_cache = <<>> /\ rng_pos = 0
        /\ valgt_omraade = NoArea /\ view.valgt = NoArea

C8_Witness ==
    /\ load = "nofield"
    /\ pc = "halted"
    /\ "tilgjengelige_felt" \in view.messages

\* C9: with a single area the edge set is empty and the pass completes: no
\* outbound or inbound entries, totals and net 0, no links, so the "no
\* flows" message instead of a Sankey and the empty-state messages instead
\* of tables and exports.
C9_SingleArea ==
    /\ (load = "ok" /\ Len(omraader_liste(rows)) = 1) => pc \in {"run", "idle"}
    /\ (Vist /\ Len(view.liste) = 1) =>
        /\ view.od_data = <<>>
        /\ view.reiser_ut = <<>> /\ view.reiser_inn = <<>>
        /\ view.total_ut = 0 /\ view.total_inn = 0 /\ view.netto = 0
        /\ view.links = <<>>
        /\ {"ingen_reisestroemmer", "ingen_utgaaende", "ingen_innkommende"} \subseteq view.messages
        /\ view.rendered \cap {"sankey", "tabell_ut", "csv_ut", "tabell_inn", "csv_inn"} = {}

C9_Witness ==
    /\ pc = "idle"
    /\ Len(rows) = 2
    /\ view.liste = <<1>>
    /\ view.valgt = 1

\* C10: the selection starts as the first area of the catalog and, whenever
\* the passes have settled, is a member of the area list and is the area the
\* user chose most recently, for which the page is rendered.
C10_SelectionFollowsUser ==
    pc = "idle" =>
        /\ valgt_omraade \in Range(view.liste)
        /\ view.valgt = valgt_omraade
        /\ chosen = NoArea => valgt_omraade = view.liste[1]
        /\ chosen # NoArea => valgt_omraade = chosen

====
